---- MODULE Spec2Model ----
(***************************************************************************)
(* Model of bot.py (KoTeaBOT): the aiogram handlers cmd_start, cmd_search, *)
(* handle_possible_link, handle_text_query and the request flow            *)
(* download_and_send.                                                      *)
(*                                                                         *)
(* Every incoming message is handled by one asyncio task.  A task runs     *)
(* without interruption from one `await` to the next, so each action below *)
(* is the code between two awaits: it completes the pending transport call *)
(* (with success or with an exception) and runs the handler up to the next *)
(* transport call.  The yt-dlp calls (extract_info) are plain synchronous  *)
(* calls inside the coroutine: they run inside the action, and a call that *)
(* never returns keeps the event loop's only thread.                       *)
(***************************************************************************)
EXTENDS Integers, Sequences, FiniteSets, TLC

\* ------------------------------------------------------------------ bounds
NumTasks == 2

Tasks == 1..NumTasks
Users == {"u1", "u2"}

\* --------------------------------------------------------- program constants
MAX_FILE_SIZE_MB == 48
REQUEST_MAX_LENGTH == 100
MiB == 1024 * 1024

\* ------------------------------------------------------------------- texts
\* A text is a sequence of one-character strings.  The incoming messages are
\* drawn from Texts: texts on both sides of each length limit, texts with a
\* link at the start and inside, the two commands, and a message that has no
\* text at all (message.text is None).  padded is long enough only before it
\* is stripped; maxlen is exactly REQUEST_MAX_LENGTH characters long and
\* carries a scheme other than http(s).
Rep(c, n) == [i \in 1..n |-> c]

NoText == <<"<no text>">>

Texts ==
  [ two      |-> <<"a", "b">>,
    padded   |-> <<" ", "a", "b", " ">>,
    maxlen   |-> <<"f", "t", "p", ":", "/", "/">> \o Rep("a", REQUEST_MAX_LENGTH - 6),
    toolong  |-> Rep("a", REQUEST_MAX_LENGTH + 1),
    link     |-> <<"h", "t", "t", "p", "s", ":", "/", "/", "x">>,
    inner    |-> <<"a", " ", "h", "t", "t", "p", ":", "/", "/", "x">>,
    longurl  |-> <<"a", " ", "h", "t", "t", "p", ":", "/", "/">> \o Rep("a", REQUEST_MAX_LENGTH),
    start    |-> <<"/", "s", "t", "a", "r", "t">>,
    search   |-> <<"/", "s", "e", "a", "r", "c", "h">>,
    photo    |-> NoText ]

Messages == DOMAIN Texts

HasText(m) == Texts[m] # NoText

SetMin(S) == CHOOSE x \in S : \A y \in S : x <= y
SetMax(S) == CHOOSE x \in S : \A y \in S : x >= y

\* str.strip(): leading and trailing whitespace removed
strip(s) ==
  LET keep == {i \in 1..Len(s) : s[i] # " "}
  IN  IF keep = {} THEN <<>> ELSE SubSeq(s, SetMin(keep), SetMax(keep))

\* str.startswith(p)
startswith(s, p) == Len(s) >= Len(p) /\ SubSeq(s, 1, Len(p)) = p

\* p occurs somewhere in s
contains(s, p) ==
  \E i \in 1..(Len(s) - Len(p) + 1) : SubSeq(s, i, i + Len(p) - 1) = p

Http == <<"h", "t", "t", "p", ":", "/", "/">>
Https == <<"h", "t", "t", "p", "s", ":", "/", "/">>

\* re.search(r"https?://", query)
re_search_url(q) == contains(q, Http) \/ contains(q, Https)

\* aiogram's Command filter: the text is the command, alone or followed by arguments
IsCommand(s, name) ==
  LET c == <<"/">> \o name
  IN  startswith(s, c) /\ (Len(s) = Len(c) \/ s[Len(c) + 1] = " ")

\* The router tries the handlers in the order they are registered.
Route(m) ==
  IF HasText(m) /\ IsCommand(Texts[m], <<"s", "t", "a", "r", "t">>) THEN "cmd_start"
  ELSE IF HasText(m) /\ IsCommand(Texts[m], <<"s", "e", "a", "r", "c", "h">>) THEN "cmd_search"
  ELSE IF HasText(m) /\ (startswith(Texts[m], Http) \/ startswith(Texts[m], Https))
       THEN "handle_possible_link"
  ELSE "handle_text_query"

\* The checks of handle_text_query on query = message.text.strip(), in their order.
TooLong_off(q) == Len(q) > REQUEST_MAX_LENGTH + 1
TooLong(q) == Len(q) > REQUEST_MAX_LENGTH

LooksLikeUrl_prefix(q) == startswith(q, Http) \/ startswith(q, Https)
LooksLikeUrl(q) == re_search_url(q)

Validate(q) ==
  IF Len(q) < 3 THEN "too_short"
  ELSE IF TooLong(q) THEN "too_long"
  ELSE IF LooksLikeUrl(q) THEN "text_only"
  ELSE "ok"

\* The handler each message is routed to, and what handle_text_query's checks
\* say of its stripped text.
Handler == [m \in Messages |-> Route(m)]
Verdict == [m \in Messages |-> IF HasText(m) THEN Validate(strip(Texts[m])) ELSE "no_text"]

\* ------------------------------------------------------- external engines
Titles == {"A", "B"}
Absent == 0 - 1

\* What ydl.extract_info(f"ytsearch{SEARCH_LIMIT}:{query}", download=False)
\* can do: raise, never return, or return a dict with or without "entries".
SearchResults ==
  { [kind |-> k, has_entries |-> FALSE, entries |-> <<>>] : k \in {"raise", "hang", "dict"} }
  \cup { [kind |-> "dict", has_entries |-> TRUE, entries |-> e] :
           e \in {<<>>, <<"A">>, <<"B", "A">>} }

\* Sizes in bytes of the mp3 a fetch can leave: exactly the limit, one byte more.
FileSizes == {MAX_FILE_SIZE_MB * MiB, MAX_FILE_SIZE_MB * MiB + 1}

\* What ydl.extract_info(url, download=True) can do: raise (before or after it
\* made the destination directory), never return, or return an info dict that
\* reports a "filepath" or not, having written an mp3 or not.
FetchOutcomes ==
  { [kind |-> "raise", mkdir |-> b, reported |-> FALSE, produced |-> Absent] : b \in BOOLEAN }
  \cup { [kind |-> "hang", mkdir |-> FALSE, reported |-> FALSE, produced |-> Absent] }
  \cup { [kind |-> "return", mkdir |-> TRUE, reported |-> r, produced |-> p] :
           r \in BOOLEAN, p \in FileSizes \cup {Absent} }

\* ------------------------------------------------------------------- state
VARIABLES
  pc,         \* pc[t]: the await task t is suspended at ("new": no message yet)
  user,       \* user[t]: message.from_user.id
  msg,        \* msg[t]: the message task t handles
  start,      \* start[t]: the user's session state when the message arrived
  log,        \* log[t]: the external calls task t made, in order, with results
  search_result, \* search_result[t]: the entries of the search result
  title,      \* title[t]: title (and locator) of the chosen candidate
  filepath,   \* filepath[t]: the resolved output file
  filesize,   \* filesize[t]: st_size read for the size check
  escaped,    \* escaped[t]: an exception left the handler
  fsm,        \* fsm[u]: the session state kept by the FSM storage
  dirs        \* dirs[u]: the scratch directory downloads/user_<u>

vars == <<pc, user, msg, start, log, search_result, title, filepath, filesize, escaped, fsm, dirs>>
taskVars == <<user, msg, start, search_result, title, filepath, filesize>>

None == "None"
NoDir == [exists |-> FALSE, mp3 |-> [n \in Titles |-> Absent]]

Init ==
  /\ pc = [t \in Tasks |-> "new"]
  /\ user = [t \in Tasks |-> None]
  /\ msg = [t \in Tasks |-> None]
  /\ start = [t \in Tasks |-> None]
  /\ log = [t \in Tasks |-> <<>>]
  /\ search_result = [t \in Tasks |-> <<>>]
  /\ title = [t \in Tasks |-> None]
  /\ filepath = [t \in Tasks |-> None]
  /\ filesize = [t \in Tasks |-> Absent]
  /\ escaped = [t \in Tasks |-> FALSE]
  /\ fsm = [u \in Users |-> "idle"]
  /\ dirs = [u \in Users |-> NoDir]

\* ------------------------------------------------------------ small helpers
\* path.mkdir(exist_ok=True)
get_user_dir(d) == [d EXCEPT !.exists = TRUE]

\* shutil.rmtree(user_dir, ignore_errors=True) when the directory exists
clean_user_dir_keep(d) == d
clean_user_dir(d) == NoDir

\* filepath.unlink(missing_ok=True)
unlink(d, f) == [d EXCEPT !.mp3[f] = Absent]

\* state.set_state(SearchForm.waiting_for_query)
set_state_keep(s) == s
set_state(s) == "waiting_for_query"

\* state.clear()
state_clear_keep(s) == s
state_clear(s) == "idle"

\* A transport call is logged when it is made and completed when the task resumes.
Call(l, op, arg) == Append(l, [op |-> op, arg |-> arg, res |-> "pending"])
Done(l, ok) == [l EXCEPT ![Len(l)].res = IF ok THEN "ok" ELSE "fail"]
Sync(l, op, arg, res) == Append(l, [op |-> op, arg |-> arg, res |-> res])

\* A synchronous engine call that never returns holds the event loop's thread:
\* no other coroutine is resumed and no new update is dispatched.
Hung(t) == pc[t] \in {"hung_search", "hung_fetch"}
LoopBlocked == \E t \in Tasks : Hung(t)

\* --------------------------------------------------------------- handlers
\* A message of user u arrives and is dispatched to task t.
Arrive(t, u, m, h) ==
  /\ ~LoopBlocked
  /\ pc[t] = "new"
  /\ Handler[m] = h
  /\ user' = [user EXCEPT ![t] = u]
  /\ msg' = [msg EXCEPT ![t] = m]
  /\ start' = [start EXCEPT ![t] = fsm[u]]
  /\ UNCHANGED <<search_result, title, filepath, filesize, fsm>>

\* cmd_start: await message.answer(welcome)
cmd_start(t) ==
  \E u \in Users, m \in Messages :
    /\ Arrive(t, u, m, "cmd_start")
    /\ log' = [log EXCEPT ![t] = Call(@, "answer", "welcome")]
    /\ pc' = [pc EXCEPT ![t] = "aw_start"]
    /\ UNCHANGED <<escaped, dirs>>

\* cmd_search: await message.answer(prompt)
cmd_search(t) ==
  \E u \in Users, m \in Messages :
    /\ Arrive(t, u, m, "cmd_search")
    /\ log' = [log EXCEPT ![t] = Call(@, "answer", "prompt")]
    /\ pc' = [pc EXCEPT ![t] = "aw_prompt"]
    /\ UNCHANGED <<escaped, dirs>>

\* handle_possible_link: await message.answer(text only)
handle_possible_link(t) ==
  \E u \in Users, m \in Messages :
    /\ Arrive(t, u, m, "handle_possible_link")
    /\ log' = [log EXCEPT ![t] = Call(@, "answer", "link_reject")]
    /\ pc' = [pc EXCEPT ![t] = "aw_reject"]
    /\ UNCHANGED <<escaped, dirs>>

\* handle_text_query up to its first await: message.text.strip() raises
\* AttributeError on a message without text; a query that fails a check is
\* answered with the rejection; any other query enters download_and_send, which
\* makes the user's directory and sends the status message.
handle_text_query(t) ==
  \E u \in Users, m \in Messages :
    /\ Arrive(t, u, m, "handle_text_query")
    /\ IF ~HasText(m)
       THEN /\ pc' = [pc EXCEPT ![t] = "done"]
            /\ escaped' = [escaped EXCEPT ![t] = TRUE]
            /\ UNCHANGED <<log, dirs>>
       ELSE LET v == Verdict[m]
            IN  IF v # "ok"
                THEN /\ log' = [log EXCEPT ![t] = Call(@, "answer", v)]
                     /\ pc' = [pc EXCEPT ![t] = "aw_reject"]
                     /\ UNCHANGED <<escaped, dirs>>
                ELSE /\ dirs' = [dirs EXCEPT ![u] = get_user_dir(@)]
                     /\ log' = [log EXCEPT ![t] = Call(@, "answer", "searching")]
                     /\ pc' = [pc EXCEPT ![t] = "aw_status"]
                     /\ UNCHANGED escaped

\* The answer of cmd_start, handle_possible_link or a rejection of
\* handle_text_query completes; nothing catches its exception.
Replied(t) ==
  /\ ~LoopBlocked
  /\ pc[t] \in {"aw_start", "aw_reject"}
  /\ \E ok \in BOOLEAN :
       /\ log' = [log EXCEPT ![t] = Done(@, ok)]
       /\ escaped' = [escaped EXCEPT ![t] = ~ok]
  /\ pc' = [pc EXCEPT ![t] = "done"]
  /\ UNCHANGED <<taskVars, fsm, dirs>>

\* The answer of cmd_search completes; then state.set_state(waiting_for_query).
Prompted(t) ==
  /\ ~LoopBlocked
  /\ pc[t] = "aw_prompt"
  /\ \E ok \in BOOLEAN :
       /\ log' = [log EXCEPT ![t] = Done(@, ok)]
       /\ escaped' = [escaped EXCEPT ![t] = ~ok]
       /\ fsm' = IF ok THEN [fsm EXCEPT ![user[t]] = set_state(@)] ELSE fsm
  /\ pc' = [pc EXCEPT ![t] = "done"]
  /\ UNCHANGED <<taskVars, dirs>>

\* ------------------------------------------------------ download_and_send
\* finally: clean_user_dir(user_dir); state.clear()
FinallyDirs_all(u, d) == [v \in Users |-> clean_user_dir(d)]
FinallyDirs(u, d) == [dirs EXCEPT ![u] = clean_user_dir(d)]
FinallyFsm_all(u) == [v \in Users |-> state_clear(fsm[v])]
FinallyFsm(u) == [fsm EXCEPT ![u] = state_clear(@)]

\* The request ends: the finally block runs with the directory as d.
Finish(t, d) ==
  /\ pc' = [pc EXCEPT ![t] = "done"]
  /\ dirs' = FinallyDirs(user[t], d)
  /\ fsm' = FinallyFsm(user[t])

\* except Exception: await status_msg.edit_text(error_text), from log l
Except(t, l) ==
  /\ log' = [log EXCEPT ![t] = Call(l, "edit", "error")]
  /\ pc' = [pc EXCEPT ![t] = "aw_err_edit"]

\* "entries" not in search_result or not search_result["entries"]
NoCandidates_key(sr) == ~sr.has_entries
NoCandidates(sr) == ~sr.has_entries \/ sr.entries = <<>>

\* entry = search_result["entries"][0]
entry_last(sr) == sr.entries[Len(sr.entries)]
entry(sr) == sr.entries[1]

\* The status message is sent; then the search runs and its result is shown.
StatusSent(t) ==
  /\ ~LoopBlocked
  /\ pc[t] = "aw_status"
  /\ \E ok \in BOOLEAN :
       IF ~ok
       THEN \* status_msg is unbound: edit_text raises NameError, the bare except answers
            /\ log' = [log EXCEPT ![t] = Call(Done(@, FALSE), "answer", "error")]
            /\ pc' = [pc EXCEPT ![t] = "aw_err_answer"]
            /\ UNCHANGED <<taskVars, escaped, fsm, dirs>>
       ELSE \E sr \in SearchResults :
            LET l == Sync(Done(log[t], TRUE), "search", msg[t],
                          IF sr.kind # "dict" THEN sr.kind
                          ELSE IF ~sr.has_entries THEN "no_key"
                          ELSE IF sr.entries = <<>> THEN "empty" ELSE "found")
            IN  /\ UNCHANGED <<user, msg, start, filepath, filesize, escaped, fsm, dirs>>
                /\ CASE sr.kind = "hang" ->
                          /\ log' = [log EXCEPT ![t] = l]
                          /\ pc' = [pc EXCEPT ![t] = "hung_search"]
                          /\ UNCHANGED <<search_result, title>>
                     [] sr.kind = "raise" ->
                          /\ log' = [log EXCEPT ![t] = Call(l, "edit", "search_failed")]
                          /\ pc' = [pc EXCEPT ![t] = "aw_final_edit"]
                          /\ UNCHANGED <<search_result, title>>
                     [] sr.kind = "dict" /\ NoCandidates(sr) ->
                          /\ log' = [log EXCEPT ![t] = Call(l, "edit", "not_found")]
                          /\ pc' = [pc EXCEPT ![t] = "aw_final_edit"]
                          /\ UNCHANGED <<search_result, title>>
                     [] sr.kind = "dict" /\ ~NoCandidates(sr) /\ sr.entries = <<>> ->
                          \* search_result["entries"][0] raises IndexError
                          /\ Except(t, l)
                          /\ UNCHANGED <<search_result, title>>
                     [] OTHER ->
                          /\ search_result' = [search_result EXCEPT ![t] = sr.entries]
                          /\ title' = [title EXCEPT ![t] = entry(sr)]
                          /\ log' = [log EXCEPT ![t] = Call(l, "edit", "info")]
                          /\ pc' = [pc EXCEPT ![t] = "aw_info_edit"]

\* An edit that is followed by `return` completes: the search-failed, not-found,
\* no-mp3 and file-not-created messages.
FinalEdited(t) ==
  /\ ~LoopBlocked
  /\ pc[t] = "aw_final_edit"
  /\ \E ok \in BOOLEAN :
       IF ok
       THEN /\ log' = [log EXCEPT ![t] = Done(@, TRUE)]
            /\ Finish(t, dirs[user[t]])
       ELSE /\ Except(t, Done(log[t], FALSE))
            /\ UNCHANGED <<fsm, dirs>>
  /\ UNCHANGED <<taskVars, escaped>>

\* The directory after the fetch of `ti`, which ran with outcome fo.
AfterFetch(d, ti, fo) ==
  IF fo.kind = "return"
  THEN [exists |-> TRUE,
        mp3 |-> IF fo.produced # Absent THEN [d.mp3 EXCEPT ![ti] = fo.produced] ELSE d.mp3]
  ELSE IF fo.kind = "raise" /\ fo.mkdir THEN get_user_dir(d)
  ELSE d

\* info["filepath"] when the engine reports one, else the mp3 files that
\* user_dir.glob("*.mp3") lists (the first of them is taken; the listing order
\* is the file system's).
Resolve(d, ti, fo) ==
  IF fo.reported THEN {ti} ELSE {n \in Titles : d.mp3[n] # Absent}

\* file_size_mb > MAX_FILE_SIZE_MB, with file_size_mb = st_size / (1024 * 1024)
Oversized_ge(size) == size >= MAX_FILE_SIZE_MB * MiB
Oversized_floor(size) == size \div MiB > MAX_FILE_SIZE_MB
Oversized(size) == size > MAX_FILE_SIZE_MB * MiB

\* filepath.exists()
exists_always(d, f) == TRUE
exists(d, f) == d.mp3[f] # Absent

\* The candidate's details are shown; then the fetch runs, the output file is
\* resolved and measured, and the next message is sent.
InfoEdited(t) ==
  /\ ~LoopBlocked
  /\ pc[t] = "aw_info_edit"
  /\ UNCHANGED <<user, msg, start, search_result, title, escaped, fsm>>
  /\ \E ok \in BOOLEAN :
       IF ~ok
       THEN /\ Except(t, Done(log[t], FALSE))
            /\ UNCHANGED <<filepath, filesize, dirs>>
       ELSE \E fo \in FetchOutcomes :
            LET u == user[t]
                d == AfterFetch(dirs[u], title[t], fo)
                l == Sync(Done(log[t], TRUE), "fetch", title[t], fo.kind)
                found == Resolve(d, title[t], fo)
            IN  /\ dirs' = [dirs EXCEPT ![u] = d]
                /\ CASE fo.kind = "hang" ->
                          /\ log' = [log EXCEPT ![t] = l]
                          /\ pc' = [pc EXCEPT ![t] = "hung_fetch"]
                          /\ UNCHANGED <<filepath, filesize>>
                     [] fo.kind = "raise" ->
                          /\ Except(t, l)
                          /\ UNCHANGED <<filepath, filesize>>
                     [] fo.kind = "return" /\ found = {} ->
                          /\ log' = [log EXCEPT ![t] = Call(l, "edit", "no_mp3")]
                          /\ pc' = [pc EXCEPT ![t] = "aw_final_edit"]
                          /\ UNCHANGED <<filepath, filesize>>
                     [] OTHER ->
                          \E f \in found :
                            /\ filepath' = [filepath EXCEPT ![t] = f]
                            /\ IF ~exists(d, f)
                               THEN /\ log' = [log EXCEPT ![t] = Call(l, "edit", "no_file")]
                                    /\ pc' = [pc EXCEPT ![t] = "aw_final_edit"]
                                    /\ UNCHANGED filesize
                               ELSE /\ filesize' = [filesize EXCEPT ![t] = d.mp3[f]]
                                    /\ IF Oversized(d.mp3[f])
                                       THEN /\ log' = [log EXCEPT ![t] = Call(l, "edit", "oversized")]
                                            /\ pc' = [pc EXCEPT ![t] = "aw_oversize_edit"]
                                       ELSE /\ log' = [log EXCEPT ![t] = Call(l, "edit", "sending")]
                                            /\ pc' = [pc EXCEPT ![t] = "aw_sending_edit"]

\* The oversized message is shown; then filepath.unlink(missing_ok=True); return.
OversizeEdited(t) ==
  /\ ~LoopBlocked
  /\ pc[t] = "aw_oversize_edit"
  /\ \E ok \in BOOLEAN :
       IF ok
       THEN /\ log' = [log EXCEPT ![t] = Done(@, TRUE)]
            /\ Finish(t, unlink(dirs[user[t]], filepath[t]))
       ELSE /\ Except(t, Done(log[t], FALSE))
            /\ UNCHANGED <<fsm, dirs>>
  /\ UNCHANGED <<taskVars, escaped>>

\* "Sending..." is shown; then await message.answer_audio(FSInputFile(filepath)).
SendingEdited(t) ==
  /\ ~LoopBlocked
  /\ pc[t] = "aw_sending_edit"
  /\ \E ok \in BOOLEAN :
       IF ok
       THEN /\ log' = [log EXCEPT ![t] = Call(Done(@, TRUE), "audio", filepath[t])]
            /\ pc' = [pc EXCEPT ![t] = "aw_audio"]
       ELSE Except(t, Done(log[t], FALSE))
  /\ UNCHANGED <<taskVars, escaped, fsm, dirs>>

\* Inside answer_audio the transport opens the file to stream it: a file that
\* is gone by then raises; an open file stays readable.
AudioOpened(t) ==
  /\ ~LoopBlocked
  /\ pc[t] = "aw_audio"
  /\ IF dirs[user[t]].mp3[filepath[t]] # Absent
     THEN /\ pc' = [pc EXCEPT ![t] = "aw_audio_body"]
          /\ UNCHANGED log
     ELSE Except(t, Done(log[t], FALSE))
  /\ UNCHANGED <<taskVars, escaped, fsm, dirs>>

\* answer_audio completes; then await status_msg.delete().
AudioSent(t) ==
  /\ ~LoopBlocked
  /\ pc[t] = "aw_audio_body"
  /\ \E ok \in BOOLEAN :
       IF ok
       THEN /\ log' = [log EXCEPT ![t] = Call(Done(@, TRUE), "delete", "status")]
            /\ pc' = [pc EXCEPT ![t] = "aw_delete"]
       ELSE Except(t, Done(log[t], FALSE))
  /\ UNCHANGED <<taskVars, escaped, fsm, dirs>>

\* status_msg.delete() completes: the try block is over.
StatusDeleted(t) ==
  /\ ~LoopBlocked
  /\ pc[t] = "aw_delete"
  /\ \E ok \in BOOLEAN :
       IF ok
       THEN /\ log' = [log EXCEPT ![t] = Done(@, TRUE)]
            /\ Finish(t, dirs[user[t]])
       ELSE /\ Except(t, Done(log[t], FALSE))
            /\ UNCHANGED <<fsm, dirs>>
  /\ UNCHANGED <<taskVars, escaped>>

\* The error edit of the except block completes; on failure the bare except
\* sends the error text as a new message.
ErrorEdited(t) ==
  /\ ~LoopBlocked
  /\ pc[t] = "aw_err_edit"
  /\ \E ok \in BOOLEAN :
       IF ok
       THEN /\ log' = [log EXCEPT ![t] = Done(@, TRUE)]
            /\ Finish(t, dirs[user[t]])
       ELSE /\ log' = [log EXCEPT ![t] = Call(Done(@, FALSE), "answer", "error")]
            /\ pc' = [pc EXCEPT ![t] = "aw_err_answer"]
            /\ UNCHANGED <<fsm, dirs>>
  /\ UNCHANGED <<taskVars, escaped>>

\* The fallback message.answer(error_text) completes; if it raises, the
\* exception leaves download_and_send after the finally block.
ErrorAnswered(t) ==
  /\ ~LoopBlocked
  /\ pc[t] = "aw_err_answer"
  /\ \E ok \in BOOLEAN :
       /\ log' = [log EXCEPT ![t] = Done(@, ok)]
       /\ escaped' = [escaped EXCEPT ![t] = ~ok]
  /\ Finish(t, dirs[user[t]])
  /\ UNCHANGED taskVars

\* A suspended task is resumed.
Resume(t) ==
  \/ Replied(t)
  \/ Prompted(t)
  \/ StatusSent(t)
  \/ FinalEdited(t)
  \/ InfoEdited(t)
  \/ OversizeEdited(t)
  \/ SendingEdited(t)
  \/ AudioOpened(t)
  \/ AudioSent(t)
  \/ StatusDeleted(t)
  \/ ErrorEdited(t)
  \/ ErrorAnswered(t)

Next ==
  \E t \in Tasks :
    \/ cmd_start(t)
    \/ cmd_search(t)
    \/ handle_possible_link(t)
    \/ handle_text_query(t)
    \/ Resume(t)

Spec == Init /\ [][Next]_vars

\* The event loop resumes every task whose awaited call has completed, and an
\* awaited transport call completes (with a result or an exception).  Nothing
\* makes a message arrive.
FairSpec == Spec /\ \A t \in Tasks : WF_vars(Resume(t))

\* ------------------------------------------------------------ vocabulary
\* The awaits and engine calls inside download_and_send's try block.
DownloadPcs ==
  {"aw_status", "aw_final_edit", "aw_info_edit", "aw_oversize_edit", "aw_sending_edit",
   "aw_audio", "aw_audio_body", "aw_delete", "aw_err_edit", "aw_err_answer",
   "hung_search", "hung_fetch"}

InTextFlow(t) ==
  /\ pc[t] # "new"
  /\ HasText(msg[t])
  /\ Handler[msg[t]] \in {"handle_possible_link", "handle_text_query"}

\* Task t entered download_and_send.
Requested(t) == log[t] # <<>> /\ log[t][1].arg = "searching"

Calls(t, op) == {i \in 1..Len(log[t]) : log[t][i].op = op}
Attempted(t, op) == Calls(t, op) # {}

\* The user has received message `kind` from task t.
Shown(t, kind) ==
  \E i \in 1..Len(log[t]) :
    /\ log[t][i].op \in {"answer", "edit"}
    /\ log[t][i].arg = kind
    /\ log[t][i].res = "ok"

Ended(t) == pc[t] # "done" /\ pc'[t] = "done"
RequestEnded(t) == pc[t] \in DownloadPcs /\ pc'[t] = "done"

QueryLength == [m \in Messages |-> Len(strip(Texts[m]))]
MentionsHttp == [m \in Messages |-> re_search_url(Texts[m])]
StartsWithHttp == [m \in Messages |-> startswith(Texts[m], Http) \/ startswith(Texts[m], Https)]

\* ---------------------------------------------------------------- claims
\* No directory exists for a user none of whose requests is inside
\* download_and_send.
C1_NoDirWhenQuiet ==
  \A u \in Users :
    (\A t \in Tasks : user[t] = u => pc[t] \notin DownloadPcs) => dirs[u] = NoDir

\* The directory is gone in the state a request ends in.
C1_EndStep == \A t \in Tasks : RequestEnded(t) => dirs'[user[t]] = NoDir

\* C1: once a request handled by download_and_send has ended, whatever its
\* outcome, the scratch directory of its user does not exist: it is gone in
\* the state the request ends in, and no directory exists for a user none of
\* whose requests is inside download_and_send.
C1_ScratchDirRemoved == [] C1_NoDirWhenQuiet /\ [][C1_EndStep]_vars

\* A request fetched a file, failed to deliver it and failed to send the error
\* text; it has ended and its user's directory is gone.
C1_Witness ==
  \E t \in Tasks :
    /\ pc[t] = "done"
    /\ escaped[t]
    /\ filesize[t] # Absent
    /\ dirs[user[t]] = NoDir

\* C2: a text (not a command) whose query (the stripped text) is shorter than
\* 3 or longer than 100 characters is answered with a rejection and nothing
\* else: the task makes no search, no fetch and no delivery.
C2_RejectedBeforeSearch ==
  \A t \in Tasks :
    (InTextFlow(t) /\ (QueryLength[msg[t]] < 3 \/ QueryLength[msg[t]] > 100)) =>
      /\ Len(log[t]) = 1
      /\ log[t][1].op = "answer"
      /\ log[t][1].arg \in {"too_short", "too_long", "link_reject"}

\* One text that is too short once stripped and one that is too long have both
\* been rejected.
C2_Witness ==
  \E t1, t2 \in Tasks :
    /\ msg[t1] = "padded" /\ Shown(t1, "too_short") /\ pc[t1] = "done"
    /\ msg[t2] = "toolong" /\ Shown(t2, "too_long") /\ pc[t2] = "done"

C4_NotFoundNoFetch ==
  \A t \in Tasks : \A i \in Calls(t, "search") :
    log[t][i].res \in {"no_key", "empty"} =>
      /\ Len(log[t]) > i
      /\ log[t][i + 1].op = "edit" /\ log[t][i + 1].arg = "not_found"
      /\ log[t][i + 1].res = "ok" => Len(log[t]) = i + 1
      /\ ~Attempted(t, "fetch")
      /\ ~Attempted(t, "audio")

\* A search that returned an empty list has ended with the not-found message.
C4_Witness ==
  \E t \in Tasks :
    /\ pc[t] = "done"
    /\ \E i \in Calls(t, "search") : log[t][i].res = "empty"
    /\ Shown(t, "not_found")

\* In one step: a fetch that returns with an output file of more than 48 MB
\* leads to the oversized message, and answer_audio is called only for a file
\* that exists and has at most 48 MB.
C5_OriginalStep ==
  \A t \in Tasks :
    /\ (/\ pc[t] = "aw_info_edit"
        /\ Attempted(t, "fetch")'
        /\ log'[t][Len(log[t]) + 1].res = "return"
        /\ dirs'[user[t]].mp3[title[t]] > MAX_FILE_SIZE_MB * 1024 * 1024)
       => pc'[t] = "aw_oversize_edit"
    /\ (pc[t] = "aw_sending_edit" /\ pc'[t] = "aw_audio") =>
         /\ dirs'[user[t]].mp3[filepath[t]] # Absent
         /\ dirs'[user[t]].mp3[filepath[t]] <= MAX_FILE_SIZE_MB * 1024 * 1024

\* C5 as stated: after a fetch that returned, an output file of more than
\* 48 MB leads to the oversized message and never to a delivery, and a
\* delivery is started only for a file that exists and has at most 48 MB.
C5_Original == [][C5_OriginalStep]_vars

\* What the size check (filesize, read from the resolved file) decides.
C5_SizeChecked ==
  \A t \in Tasks :
    /\ filesize[t] > MAX_FILE_SIZE_MB * 1024 * 1024 =>
         /\ \E i \in Calls(t, "edit") :
              /\ log[t][i].arg = "oversized"
              /\ log[t][i].res = "ok" => Len(log[t]) = i
         /\ ~Attempted(t, "audio")
    /\ Attempted(t, "audio") =>
         /\ filepath[t] \in Titles
         /\ filesize[t] # Absent
         /\ filesize[t] <= MAX_FILE_SIZE_MB * 1024 * 1024

\* The oversized file is gone in the state its request ends in.
C5_EndStep ==
  \A t \in Tasks :
    (RequestEnded(t) /\ filesize[t] > MAX_FILE_SIZE_MB * 1024 * 1024) =>
      dirs'[user[t]].mp3[filepath[t]] = Absent

\* C5 as amended: when the file the request resolved (the reported path, else
\* an mp3 found in the directory) has more than 48 MB at the size check, the
\* request sends the oversized message, which is its last call when it
\* succeeds, never starts a delivery, and the file is gone when the request
\* ends; a delivery is started only after the request's own check found the
\* resolved file to exist with at most 48 MB.
C5_OversizedNotDelivered == [] C5_SizeChecked /\ [][C5_EndStep]_vars

\* A request whose file was one byte over the limit has shown the oversized
\* message and ended.
C5_Witness ==
  \E t \in Tasks :
    /\ pc[t] = "done"
    /\ filesize[t] = MAX_FILE_SIZE_MB * 1024 * 1024 + 1
    /\ Shown(t, "oversized")

\* The user is idle in the state a request ends in.
C6_EndStep == \A t \in Tasks : RequestEnded(t) => fsm'[user[t]] = "idle"

\* C6: whenever a request that entered download_and_send ends, by whatever
\* branch, the session state of its user is idle in the state it ends in.
C6_SessionCleared == [][C6_EndStep]_vars

\* A request that arrived while its user was awaiting a query has ended and
\* the user is idle.
C6_Witness ==
  \E t \in Tasks :
    /\ pc[t] = "done"
    /\ Requested(t)
    /\ start[t] = "waiting_for_query"
    /\ fsm[user[t]] = "idle"

\* The handling of a text that arrived while its user awaited a query ends
\* with the user idle.
C7_OriginalStep ==
  \A t \in Tasks :
    (Ended(t) /\ InTextFlow(t) /\ start[t] = "waiting_for_query") =>
      fsm'[user[t]] = "idle"

\* C7 as stated: when a user who is awaiting a query sends a text (valid, too
\* short, too long or a link), the user is idle once that text is handled.
C7_Original == [][C7_OriginalStep]_vars

\* The changes of the session state in one step.
C7_Step ==
  /\ \A u \in Users :
       fsm'[u] # fsm[u] =>
         \/ /\ fsm'[u] = "waiting_for_query"
            /\ \E t \in Tasks : user[t] = u /\ pc[t] = "aw_prompt" /\ Ended(t)
         \/ /\ fsm'[u] = "idle"
            /\ \E t \in Tasks : user[t] = u /\ RequestEnded(t)
  /\ \A t \in Tasks :
       /\ (pc[t] = "aw_prompt" /\ Ended(t) /\ log'[t][1].res = "ok") =>
            fsm'[user[t]] = "waiting_for_query"
       /\ RequestEnded(t) => fsm'[user[t]] = "idle"
       /\ (pc[t] = "aw_reject" /\ Ended(t)) => fsm'[user[t]] = fsm[user[t]]

\* C7 as amended: the session state changes in two ways only: to awaiting
\* when cmd_search has sent its prompt, and to idle when a request that
\* entered download_and_send ends; the prompt always sets it, the end of such
\* a request always clears it, and a text rejected by the checks (too short,
\* too long, a link) leaves it as it was.
C7_SessionTransitions == [][C7_Step]_vars

\* A text sent while awaiting a query was rejected, and the user is still
\* awaiting a query.
C7_Witness ==
  \E t \in Tasks :
    /\ pc[t] = "done"
    /\ InTextFlow(t)
    /\ start[t] = "waiting_for_query"
    /\ Shown(t, "too_short")
    /\ fsm[user[t]] = "waiting_for_query"

\* C8: no exception leaves handle_text_query / download_and_send, whatever
\* text arrives and whichever external call fails.
C8_NoEscape ==
  \A t \in Tasks :
    (InTextFlow(t) /\ Handler[msg[t]] = "handle_text_query") => ~escaped[t]

\* The audio file reached the user; a failure message reached the user.
Delivered(t) == \E i \in Calls(t, "audio") : log[t][i].res = "ok"

ErrorShown(t) ==
  \E k \in {"search_failed", "not_found", "no_mp3", "no_file", "oversized", "error"} :
    Shown(t, k)

\* C9: a request that passed validation and has ended either delivered the
\* audio file or showed an error message, never both and never neither.
C9_NoPartialSuccess ==
  \A t \in Tasks :
    (pc[t] = "done" /\ Requested(t)) => (Delivered(t) # ErrorShown(t))

\* C10: while a request hangs in the search or the fetch, a suspended request
\* of another user can still be resumed.
C10_OthersProgress ==
  \A t1, t2 \in Tasks :
    (Hung(t1) /\ user[t2] \in Users /\ user[t2] # user[t1] /\ pc[t2] \notin {"new", "done"}) =>
      ENABLED Resume(t2)

\* Task t is in the success scenario so far: it entered download_and_send,
\* none of its calls has failed, its search found a candidate, and the file it
\* resolved after the fetch exists with at most 48 MB.
InScenario(t) ==
  /\ Requested(t)
  /\ \A i \in 1..Len(log[t]) : log[t][i].res \in {"pending", "ok", "found", "return"}
  /\ Attempted(t, "fetch") =>
       /\ filesize[t] # Absent
       /\ filesize[t] <= MAX_FILE_SIZE_MB * 1024 * 1024

\* What a request of the scenario has shown and done once it has ended.
C11_Outcome ==
  \A t \in Tasks :
    (pc[t] = "done" /\ InScenario(t)) =>
      /\ Cardinality(Calls(t, "audio")) = 1
      /\ Delivered(t)
      /\ ~ErrorShown(t)
      /\ ~escaped[t]

\* The request ends with its user's directory removed and session state idle.
C11_EndStep ==
  \A t \in Tasks :
    (RequestEnded(t) /\ InScenario(t)') =>
      /\ dirs'[user[t]] = NoDir
      /\ fsm'[user[t]] = "idle"

\* C11: in the success scenario (valid query, the search finds a candidate,
\* the fetch leaves an existing file of at most 48 MB, every transport call
\* returns successfully) the request eventually ends; it has then delivered
\* the file exactly once and shown no error message, and it ends with the
\* scratch directory removed and the session state cleared.  A call that is
\* never resumed because an engine call holds the event loop has not
\* succeeded.
C11_SuccessScenario ==
  /\ [] C11_Outcome
  /\ [][C11_EndStep]_vars
  /\ \A t \in Tasks :
       InScenario(t) ~> (pc[t] = "done" \/ ~InScenario(t) \/ LoopBlocked)

\* A request of the scenario has ended: file delivered, directory gone, idle.
C11_Witness ==
  \E t \in Tasks :
    /\ pc[t] = "done"
    /\ InScenario(t)
    /\ Delivered(t)
    /\ dirs[user[t]] = NoDir
    /\ fsm[user[t]] = "idle"

\* Task t has resolved and measured its file and has not yet opened it for
\* the delivery: it is suspended at the "sending" edit or inside answer_audio.
BeforeDelivery(t) == pc[t] \in {"aw_sending_edit", "aw_audio"}

HasFile(t) == dirs[user[t]].mp3[filepath[t]] # Absent

\* C12: two requests of one user share the scratch directory without a lock:
\* a request that waits between its fetch and its delivery can lose its file
\* (the witness), and whenever it does, the file goes in the very step in
\* which another request of the same user ends and cleans the directory.
C12_LossStep ==
  \A t \in Tasks :
    (BeforeDelivery(t) /\ HasFile(t) /\ ~HasFile(t)') =>
      \E t2 \in Tasks \ {t} : user[t2] = user[t] /\ RequestEnded(t2)

C12_SameUserRace == [][C12_LossStep]_vars

\* A request waits to deliver a file that the cleanup of another, ended
\* request of the same user has removed.
C12_Witness ==
  \E t, t2 \in Tasks :
    /\ t # t2
    /\ user[t] = user[t2]
    /\ BeforeDelivery(t)
    /\ filesize[t] # Absent
    /\ ~HasFile(t)
    /\ pc[t2] = "done"
    /\ Requested(t2)

\* C13: a step of a request for user u changes no other user's scratch
\* directory and no other user's session state, under any interleaving.
C13_Step ==
  \A t \in Tasks :
    pc'[t] # pc[t] =>
      \A u \in Users \ {user'[t]} : dirs'[u] = dirs[u] /\ fsm'[u] = fsm[u]

C13_UsersIsolated == [][C13_Step]_vars

\* A request of one user has ended (and cleaned up) while a request of another
\* user still holds its fetched file.
C13_Witness ==
  \E t, t2 \in Tasks :
    /\ user[t] \in Users /\ user[t2] \in Users /\ user[t] # user[t2]
    /\ pc[t2] = "done" /\ Requested(t2)
    /\ BeforeDelivery(t)
    /\ HasFile(t)

\* The calls that can follow a fetch that raised: the error notifications of
\* the except block.
ErrorNotice(c) == c.op \in {"edit", "answer"} /\ c.arg = "error"

\* C14: within one request the search runs at most once and the fetch at most
\* once; the fetch is made only after a search that found candidates and only
\* with the first of them; after a fetch that raised the request makes no call
\* but its error notification.
C14_NoRetryFirstOnly ==
  \A t \in Tasks :
    /\ Cardinality(Calls(t, "search")) <= 1
    /\ Cardinality(Calls(t, "fetch")) <= 1
    /\ \A i \in Calls(t, "fetch") :
         /\ \E j \in Calls(t, "search") : j < i /\ log[t][j].res = "found"
         /\ search_result[t] # <<>>
         /\ log[t][i].arg = search_result[t][1]
         /\ log[t][i].res = "raise" =>
              \A k \in (i + 1)..Len(log[t]) : ErrorNotice(log[t][k])

\* A request whose search found two candidates and whose fetch of the first
\* raised has ended: it fetched once, the first candidate.
C14_Witness ==
  \E t \in Tasks :
    /\ pc[t] = "done"
    /\ Len(search_result[t]) = 2
    /\ \E i \in Calls(t, "fetch") :
         log[t][i].res = "raise" /\ log[t][i].arg = search_result[t][1]

\* In this step the fetch of task t returns without raising.
FetchReturns(t) ==
  /\ pc[t] = "aw_info_edit"
  /\ \E i \in Calls(t, "fetch")' : i > Len(log[t]) /\ log'[t][i].res = "return"

\* user_dir.glob("*.mp3") is empty in directory d.
NoMp3(d) == \A n \in Titles : d.mp3[n] = Absent

\* The failure messages of the path resolution.
Unresolved == {"no_mp3", "no_file"}

\* When the fetch returns and the directory holds no mp3 (so no path is found,
\* or the reported one does not exist), or the resolved path does not exist,
\* the next call is the failure edit that is followed by return.
C15_Step ==
  \A t \in Tasks :
    (/\ FetchReturns(t)
     /\ \/ NoMp3(dirs'[user[t]])
        \/ filepath'[t] # None /\ dirs'[user[t]].mp3[filepath'[t]] = Absent) =>
      /\ pc'[t] = "aw_final_edit"
      /\ log'[t][Len(log'[t])].op = "edit"
      /\ log'[t][Len(log'[t])].arg =
           IF filepath'[t] = None THEN "no_mp3" ELSE "no_file"
      /\ log'[t][Len(log'[t])].res = "pending"

\* A request that sent one of these messages never starts a delivery; the
\* message is its last call when the edit succeeds, and is followed only by
\* the error notification when it fails.
C15_NoDelivery ==
  \A t \in Tasks : \A i \in Calls(t, "edit") :
    log[t][i].arg \in Unresolved =>
      /\ ~Attempted(t, "audio")
      /\ log[t][i].res = "ok" => Len(log[t]) = i
      /\ \A k \in (i + 1)..Len(log[t]) : ErrorNotice(log[t][k])

\* C15: when the fetch returns without error but no output file is resolved
\* (no reported path and no mp3 in the scratch directory, or the resolved path
\* does not exist), the request sends the failure message and never attempts
\* a delivery.
C15_UnresolvedFileFails == [] C15_NoDelivery /\ [][C15_Step]_vars

\* One request has ended with the no-mp3 message and another with the
\* file-not-created message.
C15_Witness ==
  \E t, t2 \in Tasks :
    /\ pc[t] = "done" /\ Shown(t, "no_mp3") /\ filepath[t] = None
    /\ pc[t2] = "done" /\ Shown(t2, "no_file") /\ filepath[t2] # None

====
